---- MODULE Spec2Model ----
(***************************************************************************)
(* AI Content Guardian: the content script's scanning and DOM-patching     *)
(* pipeline (content script, background fallbacks).                        *)
(*                                                                         *)
(* Text is a sequence of tokens (words and single whitespace characters),  *)
(* each with its length in characters; regular expressions with \b are     *)
(* matched word by word.  The DOM is a forest of elements, each with one   *)
(* own text node, element children, and the overlay nodes the extension    *)
(* inserts (warning badges, a rephrase wrapper with its indicator).        *)
(***************************************************************************)
EXTENDS Naturals, Integers, Sequences, FiniteSets, Bags, TLC

(***************************************************************************)
(* Bounds of the model                                                     *)
(***************************************************************************)
\* external events during a run (SETTINGS_UPDATED and PAGE_CHANGED messages,
\* insertions by the page's own scripts) on the page with one paragraph
MaxEvents == 2
\* the same on the page with two paragraphs of the same sentence
TwinEvents == 1
\* the same when the content script and the background script run together
SystemEvents == 1
\* the same on the page whose inserted div holds a full sentence
NestedEvents == 1
\* the same on the page whose paragraph is appended two levels below a div
DeepEvents == 1
\* the same on the page with a menu caption
MenuEvents == 1
\* navigations and insertions when the settings are left alone
NavEvents == 2
\* the most paragraphs and divs a long page holds, and the deepest nesting of
\* its landmark containers
MaxParagraphs == 11
MaxDivs == 21
MaxNesting == 2
\* the most watchers a run on the page with one paragraph can create
MaxWatchers == 3
\* the most words of a text sent to the background script on its own
MaxWords == 3

\* child nodes of an element handed to a DOM utility
MaxChildNodes == 3

(***************************************************************************)
(* Text                                                                    *)
(***************************************************************************)
\* the whitespace token
SP == "sp"

\* length in characters of a token
TokenLen(tok) ==
  CASE tok = SP -> 1
    [] tok = "me" -> 2
    [] tok = "kill" -> 4
    [] tok = "harm" -> 4
    [] tok = "menu" -> 4
    [] tok = "today" -> 5
    [] tok = "people" -> 6
    [] tok = "notice" -> 51
    [] tok = "this" -> 4
    [] tok = "will" -> 4
    [] tok = "you" -> 3
    [] tok = "sentence" -> 25
    [] tok = "paragraph" -> 120
    [] tok = "calm" -> 4
    [] tok \in {"sex", "Sex", "ass", "***"} -> 3
    [] tok \in {"Kill", "fuck", "f*ck", "shit", "bomb", "porn", "nude",
                "****", "tool"} -> 4
    [] tok \in {"weapon", "device"} -> 6
    [] tok \in {"sextant", "content"} -> 7
    [] tok \in {"intimacy", "homepage"} -> 8
    [] tok = "unclothed" -> 9
    [] OTHER -> 5

RECURSIVE Length(_)
\* String.prototype.length
Length(text) ==
  IF text = <<>> THEN 0 ELSE TokenLen(Head(text)) + Length(Tail(text))

RECURSIVE TrimStart(_)
TrimStart(text) ==
  IF text # <<>> /\ Head(text) = SP THEN TrimStart(Tail(text)) ELSE text

RECURSIVE TrimEnd(_)
TrimEnd(text) ==
  IF text # <<>> /\ text[Len(text)] = SP
  THEN TrimEnd(SubSeq(text, 1, Len(text) - 1))
  ELSE text

\* String.prototype.trim
Trim(text) == TrimEnd(TrimStart(text))

\* String.prototype.toLowerCase, of one token
Lower(tok) ==
  CASE tok = "Kill" -> "kill"
    [] tok = "Sex" -> "sex"
    [] OTHER -> tok

\* text.toLowerCase()
toLowerCase(text) == [i \in 1..Len(text) |-> Lower(text[i])]

\* does the text hold one of the words (a /\b(w1|w2|...)\b/i test)
HasWord(text, words) == \E i \in 1..Len(text) : Lower(text[i]) \in words

\* is the string w found inside the token
Inside(tok, w) ==
  \/ Lower(tok) = w
  \/ tok = "sextant" /\ w = "sex"
  \/ tok = "homepage" /\ w = "home"

\* does the text hold one of the strings anywhere (a /w1|w2|.../i test)
HasPart(text, parts) ==
  \E i \in 1..Len(text) : \E w \in parts : Inside(text[i], w)

\* does the text hold the two words with one space between them
HasPhrase(text, first, second) ==
  \E i \in 1..Len(text) :
    /\ i + 2 <= Len(text)
    /\ Inside(text[i], first) /\ text[i + 1] = SP /\ Inside(text[i + 2], second)

\* the words of a sentence with one space between them
RECURSIVE Sentence(_)
Sentence(words) ==
  IF Len(words) <= 1 THEN words
  ELSE <<Head(words), SP>> \o Sentence(Tail(words))

\* the pre-check without its word "kill"
quickCheckWithoutKill(text) ==
  \/ HasWord(text, {"fuck", "shit", "ass", "porn", "nude", "sex", "bomb",
                    "explosive", "hack", "harm", "suicide"})
  \/ HasPhrase(text, "break", "in")

\* analyzeElement's quick local pre-check
quickCheck(text) ==
  \/ HasWord(text, {"fuck", "shit", "ass", "porn", "nude", "sex", "bomb",
                    "explosive", "hack", "harm", "kill", "suicide"})
  \/ HasPhrase(text, "break", "in")

\* analyzeElement's common-UI-text pattern
uiText(text) ==
  \/ HasPart(text, {"menu", "navigation", "search", "copyright", "terms",
                    "privacy", "login", "home", "about"})
  \/ HasPhrase(text, "sign", "in")

\* the secondary scan's keyword test
potentialSensitiveContent(text) ==
  HasWord(text, {"kill", "bomb", "hack", "sex", "porn", "nude", "fuck",
                 "shit", "ass"})

(***************************************************************************)
(* Background fallbacks                                                    *)
(***************************************************************************)
\* is there a token of `first` followed, anywhere later, by a token of `then`
Follows(text, first, then) ==
  \E i \in 1..Len(text) : \E j \in (i + 1)..Len(text) :
    text[i] \in first /\ text[j] \in then

\* patterns.harmful: does one of the regular expressions match
harmfulPattern(text) ==
  \/ \E i \in 1..Len(text) :
       /\ i + 6 <= Len(text)
       /\ text[i] = "how" /\ text[i + 2] = "to"
       /\ text[i + 4] \in {"make", "create", "build"}
       /\ text[i + 6] \in {"bomb", "explosive", "weapon"}
  \/ \E i \in 1..Len(text) :
       i + 2 <= Len(text) /\ text[i] = "suicide" /\ text[i + 2] = "method"
  \/ HasPart(text, {"kidnap"})
  \/ Follows(text, {"kill"}, {"people"})

\* patterns.offensive: /\bf[*\w]ck\b/i and the like, which also take a
\* star or another letter in the second place
offensivePattern(text) ==
  HasWord(text, {"fuck", "f*ck", "shit", "ass", "ads", "bitch", "cunt"})

\* patterns.inappropriate: not anchored to word boundaries
inappropriatePattern(text) ==
  HasPart(text, {"porn", "nude", "sex", "genital"})

\* Object.entries(patterns): the categories in the order they are written
patternCategories == <<"harmful", "offensive", "inappropriate">>

\* the inner loop: does a regular expression of the category's list match
matchesCategory(lowerText, category) ==
  CASE category = "harmful" -> harmfulPattern(lowerText)
    [] category = "offensive" -> offensivePattern(lowerText)
    [] OTHER -> inappropriatePattern(lowerText)

RECURSIVE scanCategoriesLast(_, _)
\* the loop when a later category's match replaces an earlier one's
scanCategoriesLast(lowerText, categories) ==
  IF categories = <<>>
  THEN [isHarmful |-> FALSE, category |-> "safe", confidence |-> 6]
  ELSE LET later == scanCategoriesLast(lowerText, Tail(categories))
       IN  IF later.isHarmful THEN later
           ELSE IF matchesCategory(lowerText, Head(categories))
           THEN [isHarmful |-> TRUE, category |-> Head(categories),
                 confidence |-> 7]
           ELSE later

RECURSIVE scanCategories(_, _)
\* the outer loop over the categories; confidence is kept in tenths
scanCategories(lowerText, categories) ==
  IF categories = <<>>
  THEN [isHarmful |-> FALSE, category |-> "safe", confidence |-> 6]
  ELSE IF matchesCategory(lowerText, Head(categories))
  THEN [isHarmful |-> TRUE, category |-> Head(categories), confidence |-> 7]
  ELSE scanCategories(lowerText, Tail(categories))

calculateLocalToxicityScore(text) ==
  scanCategories(toLowerCase(text), patternCategories)

\* the word -> placeholder table of localRephrase, in the order it is written
replacements ==
  << <<"fuck", "****">>, <<"shit", "****">>, <<"bitch", "*****">>,
     <<"ass", "***">>, <<"kill", "harm">>, <<"bomb", "device">>,
     <<"weapon", "tool">>, <<"porn", "content">>, <<"nude", "unclothed">>,
     <<"sex", "intimacy">> >>

\* the replacement without the i flag
replaceWordExactCase(text, word, replacement) ==
  [i \in 1..Len(text) |-> IF text[i] = word THEN replacement ELSE text[i]]

\* rephrased.replace(new RegExp(`\\b${word}\\b`, 'gi'), replacement)
replaceWord(text, word, replacement) ==
  [i \in 1..Len(text) |-> IF Lower(text[i]) = word THEN replacement ELSE text[i]]

RECURSIVE applyReplacements(_, _)
\* the loop over the table
applyReplacements(text, table) ==
  IF table = <<>> THEN text
  ELSE applyReplacements(replaceWord(text, Head(table)[1], Head(table)[2]),
                         Tail(table))

\* '[This content has been modified for safety reasons]'
SafetyNotice == <<"notice">>

localRephrase(text, category) ==
  LET rephrased == applyReplacements(text, replacements)
  IN  IF category = "harmful" THEN SafetyNotice ELSE rephrased

\* analyzeTextContent when the remote call failed
localVerdict(text) ==
  LET r == calculateLocalToxicityScore(text)
  IN  [text |-> text, isHarmful |-> r.isHarmful, category |-> r.category,
       confidence |-> r.confidence]

\* what POST /analyze can answer for a text (the service echoes the text)
RemoteVerdicts(text) ==
  { [text |-> text, isHarmful |-> TRUE, category |-> "harmful", confidence |-> 9],
    [text |-> text, isHarmful |-> FALSE, category |-> "safe", confidence |-> 9] }

\* how a fetch to the remote service can end: a 2xx answer, another status,
\* a rejected fetch, an answer whose body does not decode
RemoteOutcomes == {"ok", "status", "network", "decode"}

\* the promise of analyzeTextContent or rephraseTextContent is rejected
Rejected == [rejected |-> TRUE]

\* the fallback throws instead of returning the local result
analyzeTextContentRethrows(text, outcome) ==
  IF outcome = "ok" THEN RemoteVerdicts(text) ELSE {Rejected}

\* what analyzeTextContent resolves to once the fetch has ended this way
analyzeTextContentAfter(text, outcome) ==
  IF outcome = "ok" THEN RemoteVerdicts(text) ELSE {localVerdict(text)}

\* every result analyzeTextContent can resolve to
analyzeTextContent(text) ==
  UNION {analyzeTextContentAfter(text, o) : o \in RemoteOutcomes}

\* what POST /rephrase answers
RemoteRephrased == <<"calm">>

\* what rephraseTextContent resolves to once the fetch has ended this way
rephraseTextContentAfter(text, category, outcome) ==
  IF outcome = "ok"
  THEN [original |-> text, rephrased |-> RemoteRephrased]
  ELSE [original |-> text, rephrased |-> localRephrase(text, category)]

\* every result rephraseTextContent can resolve to
rephraseTextContent(text, category) ==
  {rephraseTextContentAfter(text, category, o) : o \in RemoteOutcomes}

\* sendResponse({ error: ... }) of the .catch branches of onMessage
ErrorReply == [error |-> TRUE]

\* const DEFAULT_STATS = { analyzed: 0, harmful: 0, rephrased: 0, ... }
DEFAULT_STATS == [analyzed |-> 0, harmful |-> 0, rephrased |-> 0]

(***************************************************************************)
(* The page and its DOM                                                    *)
(***************************************************************************)
\* the landmark containers, paragraphs and divs of the long pages
Articles == <<"a1", "a2">>

ScanParagraphs ==
  <<"q1", "q2", "q3", "q4", "q5", "q6", "q7", "q8", "q9", "q10", "q11">>

ScanDivs ==
  <<"v1", "v2", "v3", "v4", "v5", "v6", "v7", "v8", "v9", "v10", "v11",
    "v12", "v13", "v14", "v15", "v16", "v17", "v18", "v19", "v20", "v21">>

\* every element of every page, in document order; a page holds some of them
ElemOrder == Articles \o <<"p1", "p2", "d1", "p3">> \o ScanParagraphs \o ScanDivs

\* the elements of the short pages
Elems == {"p1", "p2", "d1", "p3"}

\* the elements of the long pages
ScanElems ==
  {ElemOrder[i] : i \in 1..Len(ElemOrder)} \ Elems

\* a node the extension created (badge, wrapper or indicator span), as the
\* mutation watcher sees it among the added nodes
OverlayNode == "overlay"

\* Element.tagName
tagName(e) ==
  IF e = "d1" \/ \E i \in 1..Len(ScanDivs) : ScanDivs[i] = e THEN "DIV"
  ELSE IF \E i \in 1..Len(Articles) : Articles[i] = e THEN "ARTICLE"
  ELSE "P"

\* the roots the page's scripts append to the body while the extension runs
\* (d1 is new, p1 is moved to the end of the body)
Insertable == {"p1", "d1"}

\* "kill people today", with surrounding whitespace in the markup
TextPadded == <<SP, "kill", SP, "people", SP, "today", SP>>
\* the same sentence without it
TextPlain == <<"kill", SP, "people", SP, "today">>
\* "kill me", 7 characters once trimmed, 12 in the markup
TextShort == <<SP, SP, SP, "kill", SP, "me", SP, SP>>

NoWrapper == [has |-> FALSE, orig |-> <<>>, text |-> <<>>, indicator |-> FALSE]

\* an element as the page author wrote it; home is the element the page's
\* scripts append it to when they insert it
Pristine(parent, text) ==
  [parent |-> parent, home |-> "body",
   text |-> text, marker |-> FALSE, flagged |-> FALSE,
   processing |-> FALSE, opacity |-> "", transition |-> FALSE,
   relative |-> FALSE, badges |-> 0, wrapper |-> NoWrapper]

\* a page when the content script starts: one paragraph; a div holding a
\* short paragraph is inserted later by a script (p2 is not on this page)
PageA ==
  [e \in Elems |->
     CASE e = "p1" -> Pristine("body", TextPadded)
       [] e = "p2" -> Pristine("none", TextPlain)
       [] e = "d1" -> Pristine("none", <<>>)
       [] e = "p3" -> Pristine("d1", TextShort)]

\* the same page with a second paragraph holding the same sentence
PageB == [PageA EXCEPT !["p2"].parent = "body"]

\* the page of PageA when the paragraph of the inserted div holds the sentence
PageNested == [PageA EXCEPT !["p3"].text = TextPadded]

\* a long page: n calm paragraphs of 25 characters inside k articles nested in
\* each other (in the body when k = 0), then m divs of 120 characters each
ScanPage(n, m, k) ==
  [e \in ScanElems |->
     CASE e = "a1" -> Pristine(IF k >= 1 THEN "body" ELSE "none", <<>>)
       [] e = "a2" -> Pristine(IF k >= 2 THEN "a1" ELSE "none", <<>>)
       [] \E i \in 1..MaxParagraphs : ScanParagraphs[i] = e ->
            Pristine(IF \E i \in 1..n : ScanParagraphs[i] = e
                     THEN (CASE k = 0 -> "body" [] k = 1 -> "a1" [] OTHER -> "a2")
                     ELSE "none",
                     <<"sentence">>)
       [] OTHER ->
            Pristine(IF \E j \in 1..m : ScanDivs[j] = e THEN "body" ELSE "none",
                     <<"paragraph">>)]

\* "kill people today" followed by 25 more characters
TextInside == <<"kill", SP, "people", SP, "today", SP, "sentence">>

\* a page whose div holds its own text and an inner div, into which a script
\* later appends a paragraph
PageDeep ==
  [e \in {"d1", "v1", "p1"} |->
     CASE e = "d1" -> Pristine("body", TextInside)
       [] e = "v1" -> Pristine("d1", <<>>)
       [] e = "p1" -> [Pristine("none", TextPlain) EXCEPT !.home = "v1"]]

\* "menu people today", 17 characters
TextMenu == <<"menu", SP, "people", SP, "today">>

\* the page of PageA with a second paragraph holding a menu caption
PageMenu ==
  [PageA EXCEPT !["p2"].parent = "body", !["p2"].text = TextMenu]

\* "this will kill you"
TextKillYou == <<"this", SP, "will", SP, "kill", SP, "you">>
\* texts of 5, 25 and 120 characters without a keyword
TextFive == <<"hello">>
TextTwentyFive == <<"sentence">>
TextLong == <<"paragraph">>

\* the page with the one paragraph "this will kill you"
PageKill == [PageA EXCEPT !["p1"].text = TextKillYou]

\* the page with three paragraphs of 5, 25 and 120 characters
PageThree ==
  [PageA EXCEPT !["p1"].text = TextFive,
                !["p2"] = Pristine("body", TextTwentyFive),
                !["p3"] = Pristine("body", TextLong)]

RECURSIVE inDocument(_, _)
\* is the element attached to the document
inDocument(dom, e) ==
  CASE dom[e].parent = "body" -> TRUE
    [] dom[e].parent = "none" -> FALSE
    [] OTHER -> inDocument(dom, dom[e].parent)

RECURSIVE Ancestors(_, _)
\* the proper ancestors of an element (the body excluded)
Ancestors(dom, e) ==
  IF dom[e].parent \in DOMAIN dom
  THEN {dom[e].parent} \cup Ancestors(dom, dom[e].parent)
  ELSE {}

\* the proper descendants of an element
Descendants(dom, e) == {d \in DOMAIN dom : e \in Ancestors(dom, d)}

\* the elements among `order` that satisfy `Keep`, in the same order
RECURSIVE SelectIn(_, _)
SelectIn(order, keep) ==
  IF order = <<>> THEN <<>>
  ELSE IF Head(order) \in keep
       THEN <<Head(order)>> \o SelectIn(Tail(order), keep)
       ELSE SelectIn(Tail(order), keep)

\* the element children of an element, in document order
Children(dom, e) == SelectIn(ElemOrder, {d \in DOMAIN dom : dom[d].parent = e})

RECURSIVE ConcatText(_, _)
RECURSIVE innerText(_, _)
\* HTMLElement.innerText of an element that holds no overlay node: its own
\* text followed by its children's
innerText(dom, e) == dom[e].text \o ConcatText(dom, Children(dom, e))

ConcatText(dom, es) ==
  IF es = <<>> THEN <<>>
  ELSE innerText(dom, Head(es)) \o ConcatText(dom, Tail(es))

\* the tooltip of a badge
Tooltip == <<"tooltip">>

RECURSIVE ConcatContent(_, _)
RECURSIVE textContent(_, _)
\* Node.textContent: text node, children, wrapper, badges
textContent(dom, e) ==
  dom[e].text \o ConcatContent(dom, Children(dom, e))
    \o (IF dom[e].wrapper.has THEN dom[e].wrapper.text ELSE <<>>)
    \o (IF dom[e].badges > 0 THEN Tooltip ELSE <<>>)

ConcatContent(dom, es) ==
  IF es = <<>> THEN <<>>
  ELSE textContent(dom, Head(es)) \o ConcatContent(dom, Tail(es))

\* element.textContent = text: every child (element or overlay) is removed
setTextContent(dom, e, text) ==
  [d \in DOMAIN dom |->
     IF d = e
     THEN [dom[d] EXCEPT !.text = text, !.badges = 0, !.wrapper = NoWrapper]
     ELSE IF dom[d].parent = e THEN [dom[d] EXCEPT !.parent = "none"]
     ELSE dom[d]]

\* does the element carry an ai-guardian-* class of its own
hasGuardianClass(dom, e) == dom[e].flagged \/ dom[e].processing

\* does the element itself hold an overlay child
holdsOverlay(dom, e) == dom[e].badges > 0 \/ dom[e].wrapper.has

\* element.querySelector('.ai-guardian-warning')
hasWarningInside(dom, e) ==
  dom[e].badges > 0 \/ \E d \in Descendants(dom, e) : dom[d].badges > 0

\* element.querySelector('.ai-guardian-rephrased')
hasRephrasedInside(dom, e) ==
  dom[e].wrapper.has \/ \E d \in Descendants(dom, e) : dom[d].wrapper.has

IGNORE_TAGS == {"SCRIPT", "STYLE", "NOSCRIPT", "SVG", "CANVAS", "INPUT", "TEXTAREA"}

\* the filter; node is an element or an overlay node
shouldIgnoreElement(dom, node) ==
  IF node = OverlayNode THEN TRUE
  ELSE
    \/ hasGuardianClass(dom, node)
    \/ dom[node].parent \in DOMAIN dom /\ hasGuardianClass(dom, dom[node].parent)
    \/ holdsOverlay(dom, node)
    \/ \E d \in Descendants(dom, node) : holdsOverlay(dom, d) \/ dom[d].flagged
    \/ tagName(node) \in IGNORE_TAGS
    \/ /\ dom[node].relative \/ dom[node].opacity # "" \/ dom[node].transition
       /\ dom[node].marker

\* element.closest(tag): the element or an ancestor with this tag
closest(dom, e, tag) ==
  tagName(e) = tag \/ \E a \in Ancestors(dom, e) : tagName(a) = tag

(***************************************************************************)
(* The per-element pipeline.  A context c is what one handler of the       *)
(* content script reads and writes while it runs:                          *)
(*   settings, cache          extensionSettings, analyzedTextCache         *)
(*   dom                      the DOM                                      *)
(*   requestTimers            armed per-element request delays             *)
(*   rephraseRequests         REPHRASE_TEXT messages awaiting their answer *)
(*   added, mutated           the childList records the handler produced   *)
(*                            inside the document: the element nodes added *)
(*                            and whether there was any record at all      *)
(*   seen                     the early returns taken so far (history)     *)
(***************************************************************************)
\* the handler changed the child list of e
RecordMutation(c, e, nodes) ==
  IF inDocument(c.dom, e)
  THEN [c EXCEPT !.added = @ \o nodes, !.mutated = TRUE]
  ELSE c

addWarningIndicatorUnguarded(c, element) ==
  LET c1 == [c EXCEPT !.dom[element].relative = TRUE,
                      !.dom[element].badges = @ + 1]
  IN  RecordMutation(c1, element, <<OverlayNode>>)

addWarningIndicator(c, element) ==
  IF hasWarningInside(c.dom, element)
  THEN [c EXCEPT !.seen = @ \cup {"badge exists"}]
  ELSE LET c1 == [c EXCEPT !.dom[element].relative = TRUE,
                           !.dom[element].badges = @ + 1]
       IN  RecordMutation(c1, element, <<OverlayNode>>)

\* the synchronous part of rephraseContent: the guard and the request
rephraseContent(c, element, result) ==
  IF hasRephrasedInside(c.dom, element)
  THEN [c EXCEPT !.dom[element].processing = FALSE]
  ELSE [c EXCEPT !.dom[element].processing = TRUE,
                 !.rephraseRequests = @ (+) SetToBag({
                     [el |-> element, text |-> result.text,
                      category |-> result.category]})]

\* the verdict's category is not looked at
handleAnalysisResultByFlagOnly(c, element, result) ==
  IF ~result.isHarmful
  THEN c
  ELSE LET c1 == IF c.settings.showWarnings
                 THEN addWarningIndicator(c, element)
                 ELSE c
       IN  IF c.settings.autoRephrase
           THEN rephraseContent(c1, element, result)
           ELSE [c1 EXCEPT !.dom[element].flagged = TRUE]

handleAnalysisResult(c, element, result) ==
  IF ~result.isHarmful \/ result.category = "safe"
  THEN c
  ELSE LET c1 == IF c.settings.showWarnings
                 THEN addWarningIndicator(c, element)
                 ELSE c
       IN  IF c.settings.autoRephrase
           THEN rephraseContent(c1, element, result)
           ELSE [c1 EXCEPT !.dom[element].flagged = TRUE]

\* element.innerText, whitespace kept
analysisTextUntrimmed(dom, element) == innerText(dom, element)

\* element.innerText.trim()
analysisText(dom, element) == Trim(innerText(dom, element))

analyzeElement(c, element) ==
  IF shouldIgnoreElement(c.dom, element) THEN c
  ELSE IF c.dom[element].marker THEN c
  ELSE IF innerText(c.dom, element) = <<>> THEN c
  ELSE
    LET text == analysisText(c.dom, element)
        c1 == [c EXCEPT !.dom[element].marker = TRUE]
    IN  IF Length(text) < 10 THEN [c EXCEPT !.seen = @ \cup {"too short"}]
        ELSE IF /\ Length(text) < 20
                /\ \/ uiText(text)
                   \/ tagName(element) \in {"BUTTON", "NAV"}
                   \/ closest(c.dom, element, "NAV")
                   \/ closest(c.dom, element, "HEADER")
                   \/ closest(c.dom, element, "FOOTER")
        THEN c1
        ELSE IF text \in DOMAIN c.cache
        THEN handleAnalysisResult(c1, element, c.cache[text])
        ELSE IF ~quickCheck(text) /\ Length(text) < 100
        THEN c1
        ELSE
          LET c2 == IF c.settings.autoRephrase
                    THEN [c1 EXCEPT !.dom[element].transition = TRUE,
                                    !.dom[element].opacity = "0.95"]
                    ELSE c1
          IN  [c2 EXCEPT !.requestTimers = @ (+) SetToBag({
                             [el |-> element, text |-> text]})]

RECURSIVE forEachAnalyzeElement(_, _)
\* nodes.forEach(analyzeElement)
forEachAnalyzeElement(c, nodes) ==
  IF nodes = <<>> THEN c
  ELSE forEachAnalyzeElement(analyzeElement(c, Head(nodes)), Tail(nodes))

(***************************************************************************)
(* Reversal                                                                *)
(***************************************************************************)
\* the elements a document.querySelectorAll can reach
Attached(dom) == {e \in DOMAIN dom : inDocument(dom, e)}

\* only the first wrapper found is restored
restoreFirstWrapper(dom, es) ==
  LET found == SelectSeq(es, LAMBDA e : dom[e].wrapper.has
                                        /\ dom[e].wrapper.orig # <<>>)
  IN  IF found = <<>> THEN dom
      ELSE setTextContent(dom, Head(found), dom[Head(found)].wrapper.orig)

RECURSIVE restoreWrappers(_, _)
\* the forEach over the wrappers found: parent.textContent = originalText
restoreWrappers(dom, es) ==
  IF es = <<>> THEN dom
  ELSE LET e == Head(es)
       IN  IF dom[e].wrapper.has /\ dom[e].wrapper.orig # <<>>
           THEN restoreWrappers(setTextContent(dom, e, dom[e].wrapper.orig), Tail(es))
           ELSE restoreWrappers(dom, Tail(es))

\* the DOM after removeAllModifications
removeAllModifications(dom) ==
  LET in == Attached(dom)
      \* badges, then indicators, are removed
      d1 == [e \in DOMAIN dom |->
               IF e \in in
               THEN [dom[e] EXCEPT !.badges = 0, !.wrapper.indicator = FALSE]
               ELSE dom[e]]
      d2 == restoreWrappers(d1, SelectIn(ElemOrder, {e \in in : d1[e].wrapper.has}))
      marked == {e \in Attached(d2) : d2[e].marker}
  IN  [e \in DOMAIN dom |->
         IF e \in marked
         THEN [d2[e] EXCEPT !.marker = FALSE, !.flagged = FALSE]
         ELSE d2[e]]

\* does removeAllModifications change the child list of some element
reversalMutates(dom) ==
  \E e \in Attached(dom) : dom[e].badges > 0 \/ dom[e].wrapper.has

(***************************************************************************)
(* The scan scheduler                                                      *)
(***************************************************************************)
\* batchSize
batchSize == 5

RECURSIVE Chunks(_, _)
\* the for loop that slices the elements into batches
Chunks(es, size) ==
  IF es = <<>> THEN <<>>
  ELSE IF Len(es) <= size THEN <<es>>
  ELSE <<SubSeq(es, 1, size)>> \o Chunks(SubSeq(es, size + 1, Len(es)), size)

\* processBatches when the drain starts over after the last batch
processBatchesForEver(c, batches, index) ==
  IF index > Len(batches)
  THEN [c EXCEPT !.batchTimers = @ (+) SetToBag({
                     [batches |-> batches, index |-> 1]})]
  ELSE LET c1 == forEachAnalyzeElement(c, batches[index])
       IN  [c1 EXCEPT !.batchTimers = @ (+) SetToBag({
                          [batches |-> batches, index |-> index + 1]})]

\* processBatches(batches, index): index counts from 1 here
processBatches(c, batches, index) ==
  IF index > Len(batches) THEN c
  ELSE LET c1 == forEachAnalyzeElement(c, batches[index])
       IN  [c1 EXCEPT !.batchTimers = @ (+) SetToBag({
                          [batches |-> batches, index |-> index + 1]})]

\* the content containers: the elements of the first selector that matches
\* something (of the selectors, the pages here can match 'article' only),
\* the body when none does
contentContainers(dom) ==
  LET articles == SelectIn(ElemOrder,
                    {e \in Attached(dom) : tagName(e) = "ARTICLE"})
  IN  IF articles # <<>> THEN articles ELSE <<"body">>

\* container.querySelectorAll(textElementSelectors) after the pre-filter
priorityWithin(dom, container) ==
  SelectIn(ElemOrder,
    {e \in IF container = "body" THEN Attached(dom)
                                 ELSE Descendants(dom, container) :
       /\ tagName(e) \in {"P", "H1", "H2", "H3", "H4", "H5", "H6", "LI"}
       /\ ~shouldIgnoreElement(dom, e)
       /\ innerText(dom, e) # <<>>
       /\ Length(Trim(innerText(dom, e))) > 15})

RECURSIVE collectPriority(_, _)
\* contentContainers.forEach: each container pushes what it finds
collectPriority(dom, containers) ==
  IF containers = <<>> THEN <<>>
  ELSE priorityWithin(dom, Head(containers))
         \o collectPriority(dom, Tail(containers))

\* the primary phase's elements
priorityElements(dom) == collectPriority(dom, contentContainers(dom))

\* the secondary phase's elements, capped
limitedElements(dom) ==
  LET potentialElements ==
        SelectIn(ElemOrder,
          {e \in Attached(dom) :
             /\ tagName(e) \in {"DIV", "SPAN", "A"}
             /\ innerText(dom, e) # <<>>
             /\ ~shouldIgnoreElement(dom, e)
             /\ LET text == Trim(innerText(dom, e))
                IN  /\ ~(Length(text) < 30)
                    /\ potentialSensitiveContent(text) \/ Length(text) > 100})
  IN  SubSeq(potentialElements, 1,
             IF Len(potentialElements) < 20 THEN Len(potentialElements) ELSE 20)

\* the scan when the secondary phase is armed whatever the primary found
analyzePageContentUngated(c) ==
  LET prio == priorityElements(c.dom)
      c1 == processBatches(c, Chunks(prio, batchSize), 1)
  IN  [c1 EXCEPT !.secondaryTimers = @ + 1]

analyzePageContent(c) ==
  LET prio == priorityElements(c.dom)
      c1 == processBatches(c, Chunks(prio, batchSize), 1)
  IN  IF Len(prio) < 10
      THEN [c1 EXCEPT !.secondaryTimers = @ + 1]
      ELSE c1

(***************************************************************************)
(* DOM utilities (utils/dom-utils.js).  A node is a record: a text node    *)
(* has a textContent, an element a classList and childNodes.  A node of    *)
(* the tree handed to a utility is named by its path from the root, the    *)
(* sequence of child indexes.                                              *)
(***************************************************************************)
\* const TEXT_NODE = 3
TEXT_NODE == 3

\* Node.ELEMENT_NODE
ELEMENT_NODE == 1

TextNode(text) ==
  [nodeType |-> TEXT_NODE, classList |-> {}, childNodes |-> <<>>,
   textContent |-> text]

ElementNode(classes, children) ==
  [nodeType |-> ELEMENT_NODE, classList |-> classes, childNodes |-> children,
   textContent |-> <<>>]

\* the class names that start with 'ai-guardian-'
GuardianClasses ==
  {"ai-guardian-warning", "ai-guardian-tooltip", "ai-guardian-highlight",
   "ai-guardian-replaced"}

RECURSIVE NodeAt(_, _)
\* the node of the tree at a path
NodeAt(root, path) ==
  IF path = <<>> THEN root
  ELSE NodeAt(root.childNodes[Head(path)], Tail(path))

\* the characters of one token: <<token, position>>
TokenChars(tok) == [k \in 1..TokenLen(tok) |-> <<tok, k>>]

RECURSIVE Chars(_)
\* a text character by character
Chars(text) ==
  IF text = <<>> THEN <<>>
  ELSE TokenChars(Head(text)) \o Chars(Tail(text))

\* String.prototype.substring(start, end) of a text given by its characters,
\* for 0 <= start <= end
substring(chars, start, end) ==
  SubSeq(chars,
         (IF start > Len(chars) THEN Len(chars) ELSE start) + 1,
         IF end > Len(chars) THEN Len(chars) ELSE end)

RECURSIVE join(_)
\* textPieces.join(' ')
join(pieces) ==
  IF pieces = <<>> THEN <<>>
  ELSE IF Len(pieces) = 1 THEN Head(pieces)
  ELSE Head(pieces) \o <<SP>> \o join(Tail(pieces))

RECURSIVE processNode(_, _, _)
RECURSIVE forEachProcessNode(_, _, _, _)
\* processNode(node) of extractTextWithMapping; st holds the closure's
\* currentIndex, textPieces and nodeMapping
processNode(st, node, path) ==
  IF node.nodeType = TEXT_NODE
  THEN LET text == Trim(node.textContent)
       IN  IF Length(text) > 0
           THEN LET startIndex == st.currentIndex
                    currentIndex == st.currentIndex + Length(text)
                IN  [currentIndex |-> currentIndex,
                     nodeMapping |->
                       Append(st.nodeMapping,
                              [range |-> <<startIndex, currentIndex>>,
                               node |-> path]),
                     textPieces |-> Append(st.textPieces, text)]
           ELSE st
  ELSE IF node.nodeType = ELEMENT_NODE
  THEN IF \E cls \in node.classList : cls \in GuardianClasses
       THEN st
       ELSE forEachProcessNode(st, node.childNodes, path, 1)
  ELSE st

\* Array.from(node.childNodes).forEach(processNode), from child i on
forEachProcessNode(st, children, path, i) ==
  IF i > Len(children) THEN st
  ELSE forEachProcessNode(processNode(st, children[i], Append(path, i)),
                          children, path, i + 1)

\* extractTextWithMapping(element): the Map is given by its entries in
\* insertion order (its keys are fresh arrays, so no entry replaces another)
extractTextWithMapping(el) ==
  LET st == processNode([currentIndex |-> 0, textPieces |-> <<>>,
                         nodeMapping |-> <<>>], el, <<>>)
  IN  [text |-> join(st.textPieces), mapping |-> st.nodeMapping]

\* the text nodes of the elements handed to the utilities
NodeTexts ==
  {<<SP>>, <<"me">>, <<SP, "you", SP>>, <<"kill", SP, "me">>}

\* the children an element handed to the utilities can have: a text node, a
\* span around a text node, a warning badge of the overlay
ChildNodes ==
  {TextNode(t) : t \in NodeTexts}
    \cup {ElementNode({}, <<TextNode(<<"you">>)>>),
          ElementNode({"ai-guardian-warning"}, <<TextNode(<<"me">>)>>)}

\* the elements handed to the utilities
UtilsElements ==
  {ElementNode({}, ch) :
     ch \in UNION {[1..n -> ChildNodes] : n \in 0..MaxChildNodes}}

\* no utility has been called: no element, no value returned
NoElement == ElementNode({}, <<>>)
NotCalled == <<>>

(***************************************************************************)
(* State                                                                   *)
(***************************************************************************)
VARIABLES
  extensionSettings,  \* the content script's copy of the settings
  settingsPending,    \* the GET_SETTINGS callback has not run yet
  observer,           \* index in watchers of the watcher referred to, 0 = null
  watchers,           \* one record per setupObserver call: the MutationObserver
                      \* (connected) and its closure (pendingMutations,
                      \* processingTimeout armed or not)
  analyzedTextCache,  \* text -> verdict
  dom,                \* element -> its state
  batchTimers,        \* armed next-batch timers: bag of [batches, index]
  secondaryTimers,    \* armed 800 ms secondary-scan timers
  restartTimers,      \* armed 300 ms PAGE_CHANGED restart timers
  requestTimers,      \* armed per-element request delays: bag of [el, text]
  analyzeRequests,    \* ANALYZE_TEXT messages awaiting their answer
  rephraseRequests,   \* REPHRASE_TEXT messages awaiting their answer
  analyzeReplies,     \* answers to ANALYZE_TEXT on their way to the callback
  rephraseReplies,    \* answers to REPHRASE_TEXT on their way to the callback
  stats,              \* the stats record in chrome.storage.local
  statsOps,           \* updateStatistics calls under way, in the order of
                      \* their storage get: [type, read, snap], snap the
                      \* record the get returned
  handled,            \* requests the background has answered, per counter
                      \* (history)
  nEvents,            \* external events so far (messages, page insertions)
  eventBudget,        \* external events the run may see
  cycleSent,          \* element -> ANALYZE_TEXT messages sent for it since the
                      \* last reversal (history, counted up to 2)
  seen,               \* early returns taken so far (history): "badge exists"
                      \* in addWarningIndicator, "too short" in analyzeElement
  reversedForDisable, \* the last settings handled disabled the pipeline (history)
  utilsElement,       \* the element handed to DOMGuardianUtils.extractTextWithMapping
  utilsResult         \* what the call returned: [text, mapping], mapping the
                      \* entries of the Map in insertion order

vars ==
  <<extensionSettings, settingsPending, observer, watchers, analyzedTextCache,
    dom, batchTimers, secondaryTimers, restartTimers, requestTimers,
    analyzeRequests, rephraseRequests, analyzeReplies, rephraseReplies,
    stats, statsOps, handled, nEvents, eventBudget,
    cycleSent, seen, reversedForDisable, utilsElement, utilsResult>>

\* the state of the background script
\* the state of the DOM utilities
utils == <<utilsElement, utilsResult>>

background == <<stats, statsOps, handled>>

\* the answers on their way to the content script
replies == <<analyzeReplies, rephraseReplies>>

\* the settings the popup can store
Settings ==
  { [enabled |-> TRUE, autoRephrase |-> TRUE, showWarnings |-> TRUE],
    [enabled |-> TRUE, autoRephrase |-> FALSE, showWarnings |-> FALSE],
    [enabled |-> FALSE, autoRephrase |-> TRUE, showWarnings |-> TRUE] }

\* let extensionSettings = { enabled: true, autoRephrase: true, ... }
DefaultSettings ==
  [enabled |-> TRUE, autoRephrase |-> TRUE, showWarnings |-> TRUE]

NoVerdicts == [t \in {} |-> 0]

\* the content script has just run initializeExtension()
Loaded(page, budget) ==
  /\ eventBudget = budget
  /\ extensionSettings = DefaultSettings
  /\ settingsPending = TRUE
  /\ observer = 0
  /\ watchers = <<>>
  /\ analyzedTextCache = NoVerdicts
  /\ dom = page
  /\ batchTimers = EmptyBag
  /\ secondaryTimers = 0
  /\ restartTimers = 0
  /\ requestTimers = EmptyBag
  /\ analyzeRequests = EmptyBag
  /\ rephraseRequests = EmptyBag
  /\ analyzeReplies = EmptyBag
  /\ rephraseReplies = EmptyBag
  /\ stats = DEFAULT_STATS
  /\ statsOps = <<>>
  /\ handled = DEFAULT_STATS
  /\ nEvents = 0
  /\ cycleSent = [e \in DOMAIN page |-> 0]
  /\ seen = {}
  /\ reversedForDisable = FALSE
  /\ utilsElement = NoElement
  /\ utilsResult = NotCalled

Init == Loaded(PageA, MaxEvents)

InitTwin == Loaded(PageB, TwinEvents)

InitNested == Loaded(PageNested, NestedEvents)

\* the words of the texts sent to the background script on its own
TextWords == {"Kill", "kill", "people", "fuck", "Sex", "sextant", "calm"}

\* the sentences of at most MaxWords words
Texts ==
  {Sentence(ws) : ws \in UNION {[1..n -> TextWords] : n \in 0..MaxWords}}

\* the categories a REPHRASE_TEXT message can name
Categories == {"harmful", "offensive", "inappropriate", "safe"}

\* the background script has one message to answer, sent by some tab (not
\* the tab of the page modelled, which sits idle)
InitBackground ==
  /\ \E text \in Texts :
       \/ /\ analyzeRequests = SetToBag({[el |-> "p1", text |-> text]})
          /\ rephraseRequests = EmptyBag
       \/ /\ analyzeRequests = EmptyBag
          /\ \E category \in Categories :
               rephraseRequests =
                 SetToBag({[el |-> "p1", text |-> text, category |-> category]})
  /\ eventBudget = 0
  /\ extensionSettings = DefaultSettings
  /\ settingsPending = FALSE
  /\ observer = 0
  /\ watchers = <<>>
  /\ analyzedTextCache = NoVerdicts
  /\ dom = PageA
  /\ batchTimers = EmptyBag
  /\ secondaryTimers = 0
  /\ restartTimers = 0
  /\ requestTimers = EmptyBag
  /\ analyzeReplies = EmptyBag
  /\ rephraseReplies = EmptyBag
  /\ stats = DEFAULT_STATS
  /\ statsOps = <<>>
  /\ handled = DEFAULT_STATS
  /\ nEvents = 0
  /\ cycleSent = [e \in DOMAIN PageA |-> 0]
  /\ seen = {}
  /\ reversedForDisable = FALSE
  /\ utilsElement = NoElement
  /\ utilsResult = NotCalled

\* a long page has loaded; no message and no insertion will come
InitScan ==
  \E n \in 0..MaxParagraphs : \E m \in 0..MaxDivs : \E k \in 0..MaxNesting :
    Loaded(ScanPage(n, m, k), 0)

InitDeep == Loaded(PageDeep, DeepEvents)

InitMenu == Loaded(PageMenu, MenuEvents)

InitNav == Loaded(PageA, NavEvents)

InitSystem == \E page \in {PageKill, PageThree} : Loaded(page, SystemEvents)

\* the context a handler starts with
Context(settings) ==
  [settings |-> settings, cache |-> analyzedTextCache, dom |-> dom,
   requestTimers |-> requestTimers, rephraseRequests |-> rephraseRequests,
   batchTimers |-> batchTimers, secondaryTimers |-> secondaryTimers,
   added |-> <<>>, mutated |-> FALSE, seen |-> seen]

RECURSIVE Buffer(_, _)
\* pendingMutations.push(node) for each added element node; the spans the
\* extension created are all kept as one OverlayNode entry
Buffer(pending, added) ==
  IF added = <<>> THEN pending
  ELSE IF Head(added) = OverlayNode
          /\ \E i \in 1..Len(pending) : pending[i] = OverlayNode
       THEN Buffer(pending, Tail(added))
       ELSE Buffer(Append(pending, Head(added)), Tail(added))

\* the callback when it buffers nodes only while no timer is armed
DeliverUnlessArmed(ws, added, mutated) ==
  [g \in DOMAIN ws |->
     IF ws[g].connected /\ mutated /\ ~ws[g].processingTimeout
     THEN [ws[g] EXCEPT !.pendingMutations = Buffer(@, added),
                        !.processingTimeout = TRUE]
     ELSE ws[g]]

\* the MutationObserver callback, run for each connected watcher once the
\* handler has returned: element nodes are buffered, the debounce timer is
\* armed unless it already is
Deliver(ws, added, mutated) ==
  [g \in DOMAIN ws |->
     IF ws[g].connected /\ mutated
     THEN [ws[g] EXCEPT !.pendingMutations = Buffer(@, added),
                        !.processingTimeout = TRUE]
     ELSE ws[g]]

\* the handler's writes become the next state
Commit(c, ws) ==
  /\ dom' = c.dom
  /\ requestTimers' = c.requestTimers
  /\ rephraseRequests' = c.rephraseRequests
  /\ batchTimers' = c.batchTimers
  /\ secondaryTimers' = c.secondaryTimers
  /\ seen' = c.seen
  /\ watchers' = Deliver(ws, c.added, c.mutated)

\* new MutationObserver(...) and observe(document.body, ...)
NewWatcher ==
  [connected |-> TRUE, pendingMutations |-> <<>>, processingTimeout |-> FALSE]

(***************************************************************************)
(* Handlers of the content script                                          *)
(***************************************************************************)
Min(a, b) == IF a < b THEN a ELSE b

\* setupObserver(): a new watcher, and observer refers to it
setupObserver(obs, ws) ==
  [observer |-> Len(ws) + 1, watchers |-> Append(ws, NewWatcher)]

\* SETTINGS_UPDATED, enabled: if (!observer) setupObserver()
ensureObserver(obs, ws) ==
  IF obs = 0 THEN setupObserver(obs, ws)
  ELSE [observer |-> obs, watchers |-> ws]

\* the watcher is disconnected but observer still refers to it
teardownObserverKeepsReference(obs, ws) ==
  IF obs # 0
  THEN [observer |-> obs, watchers |-> [ws EXCEPT ![obs].connected = FALSE]]
  ELSE [observer |-> obs, watchers |-> ws]

\* SETTINGS_UPDATED, disabled: if (observer) { disconnect(); observer = null }
teardownObserver(obs, ws) ==
  IF obs # 0
  THEN [observer |-> 0, watchers |-> [ws EXCEPT ![obs].connected = FALSE]]
  ELSE [observer |-> obs, watchers |-> ws]

\* the callback of the initial GET_SETTINGS request
SettingsResponse(s) ==
  /\ UNCHANGED <<background, replies, utils>>
  /\ settingsPending
  /\ settingsPending' = FALSE
  /\ extensionSettings' = s
  /\ IF s.enabled
     THEN LET o == setupObserver(observer, watchers)
              c == analyzePageContent(Context(s))
          IN  /\ observer' = o.observer
              /\ Commit(c, o.watchers)
              /\ reversedForDisable' = FALSE
     ELSE UNCHANGED <<observer, watchers, dom, requestTimers, rephraseRequests,
                      batchTimers, secondaryTimers, seen, reversedForDisable>>
  /\ UNCHANGED <<analyzedTextCache, restartTimers, analyzeRequests,
                 cycleSent, nEvents, eventBudget>>

\* the onMessage listener, message.type === 'SETTINGS_UPDATED'
SettingsUpdated(s) ==
  /\ UNCHANGED <<background, replies, utils>>
  /\ nEvents < eventBudget
  /\ nEvents' = nEvents + 1
  /\ eventBudget' = eventBudget
  /\ extensionSettings' = s
  /\ IF s.enabled
     THEN LET o == ensureObserver(observer, watchers)
              c == analyzePageContent(Context(s))
          IN  /\ observer' = o.observer
              /\ Commit(c, o.watchers)
              /\ reversedForDisable' = FALSE
              /\ UNCHANGED cycleSent
     ELSE LET o == teardownObserver(observer, watchers)
          IN  /\ observer' = o.observer
              /\ dom' = removeAllModifications(dom)
              /\ watchers' = Deliver(o.watchers, <<>>, reversalMutates(dom))
              /\ cycleSent' = [e \in DOMAIN dom |-> 0]
              /\ reversedForDisable' = TRUE
              /\ UNCHANGED <<requestTimers, rephraseRequests, batchTimers, secondaryTimers, seen>>
  /\ UNCHANGED <<settingsPending, analyzedTextCache, restartTimers,
                 analyzeRequests>>

\* the onMessage listener, message.type === 'PAGE_CHANGED'
PageChanged ==
  /\ UNCHANGED <<background, replies>>
  /\ nEvents < eventBudget
  /\ nEvents' = nEvents + 1
  /\ eventBudget' = eventBudget
  /\ analyzedTextCache' = NoVerdicts
  /\ LET d1 == removeAllModifications(dom)
     IN  dom' = [e \in DOMAIN dom |->
                   IF e \in Attached(d1) THEN [d1[e] EXCEPT !.marker = FALSE]
                   ELSE d1[e]]
  /\ watchers' = Deliver(watchers, <<>>, reversalMutates(dom))
  /\ restartTimers' = IF extensionSettings.enabled THEN restartTimers + 1
                      ELSE restartTimers
  /\ cycleSent' = [e \in DOMAIN dom |-> 0]
  /\ UNCHANGED <<extensionSettings, settingsPending, observer, batchTimers,
                 secondaryTimers, requestTimers, analyzeRequests,
                 rephraseRequests, seen, reversedForDisable, utils>>

\* the 300 ms timer armed by PAGE_CHANGED
RestartTimerFires ==
  /\ UNCHANGED <<background, replies>>
  /\ restartTimers > 0
  /\ restartTimers' = restartTimers - 1
  /\ Commit(analyzePageContent(Context(extensionSettings)), watchers)
  /\ UNCHANGED <<extensionSettings, settingsPending, observer,
                 analyzedTextCache, analyzeRequests, cycleSent,
                 reversedForDisable, utils, nEvents, eventBudget>>

\* the timer processBatches arms for the next batch
BatchTimerFires(t) ==
  /\ UNCHANGED <<background, replies>>
  /\ BagIn(t, batchTimers)
  /\ LET c0 == [Context(extensionSettings) EXCEPT
                  !.batchTimers = @ (-) SetToBag({t})]
     IN  Commit(processBatches(c0, t.batches, t.index), watchers)
  /\ UNCHANGED <<extensionSettings, settingsPending, observer,
                 analyzedTextCache, restartTimers, analyzeRequests,
                 cycleSent, reversedForDisable, utils, nEvents, eventBudget>>

\* the 800 ms timer of the secondary phase
SecondaryTimerFires ==
  /\ UNCHANGED <<background, replies>>
  /\ secondaryTimers > 0
  /\ LET c0 == [Context(extensionSettings) EXCEPT !.secondaryTimers = @ - 1]
         secondaryBatches == Chunks(limitedElements(dom), batchSize)
     IN  Commit(processBatches(c0, secondaryBatches, 1), watchers)
  /\ UNCHANGED <<extensionSettings, settingsPending, observer,
                 analyzedTextCache, restartTimers, analyzeRequests,
                 cycleSent, reversedForDisable, utils, nEvents, eventBudget>>

\* the per-element request delay elapses: ANALYZE_TEXT is sent
RequestTimerFires(r) ==
  /\ UNCHANGED <<background, replies>>
  /\ BagIn(r, requestTimers)
  /\ requestTimers' = requestTimers (-) SetToBag({r})
  /\ analyzeRequests' = analyzeRequests (+) SetToBag({r})
  /\ cycleSent' = [cycleSent EXCEPT ![r.el] = Min(@ + 1, 2)]
  /\ UNCHANGED <<extensionSettings, settingsPending, observer, watchers,
                 analyzedTextCache, dom, batchTimers, secondaryTimers,
                 restartTimers, rephraseRequests, seen,
                 reversedForDisable, utils, nEvents, eventBudget>>

\* the callback of ANALYZE_TEXT, given the answer
AnalyzeCallback(r, result) ==
  LET c0 == Context(extensionSettings)
      c1 == IF extensionSettings.autoRephrase
            THEN [c0 EXCEPT !.dom[r.el].opacity = "1"]
            ELSE c0
  IN  IF result # ErrorReply
      THEN /\ analyzedTextCache' =
                [t \in DOMAIN analyzedTextCache \cup {r.text} |->
                   IF t = r.text THEN result ELSE analyzedTextCache[t]]
           /\ Commit(handleAnalysisResult(c1, r.el, result), watchers)
      ELSE /\ analyzedTextCache' = analyzedTextCache
           /\ Commit(c1, watchers)

\* the callback of REPHRASE_TEXT, given the answer
RephraseCallback(r, rephraseResult, pending) ==
  LET c0 == [Context(extensionSettings) EXCEPT !.rephraseRequests = pending]
      d1 == setTextContent(c0.dom, r.el, <<>>)
      d2 == [d1 EXCEPT ![r.el].wrapper =
               [has |-> TRUE, orig |-> r.text,
                text |-> rephraseResult.rephrased, indicator |-> TRUE],
                       ![r.el].processing = FALSE]
      c1 == RecordMutation([c0 EXCEPT !.dom = d2], r.el,
                           <<OverlayNode, OverlayNode>>)
      c2 == [c0 EXCEPT !.dom[r.el].processing = FALSE]
  IN  IF rephraseResult # ErrorReply
      THEN Commit(c1, watchers)
      ELSE Commit(c2, watchers)

\* ANALYZE_TEXT is answered and its callback runs; the background script is
\* the environment: any answer analyzeTextContent can resolve to
AnalyzeResponse(r, result) ==
  /\ BagIn(r, analyzeRequests)
  /\ analyzeRequests' = analyzeRequests (-) SetToBag({r})
  /\ AnalyzeCallback(r, result)
  /\ UNCHANGED <<extensionSettings, settingsPending, observer, restartTimers,
                 replies, background,
                 cycleSent, reversedForDisable, utils, nEvents, eventBudget>>

\* REPHRASE_TEXT is answered and its callback runs
RephraseResponse(r, rephraseResult) ==
  /\ BagIn(r, rephraseRequests)
  /\ RephraseCallback(r, rephraseResult, rephraseRequests (-) SetToBag({r}))
  /\ UNCHANGED <<extensionSettings, settingsPending, observer,
                 analyzedTextCache, restartTimers, analyzeRequests,
                 replies, background,
                 cycleSent, reversedForDisable, utils, nEvents, eventBudget>>

\* the answer of the background script to ANALYZE_TEXT reaches the callback
AnalyzeReplyArrives(r, result) ==
  /\ BagIn([req |-> r, result |-> result], analyzeReplies)
  /\ analyzeReplies' =
       analyzeReplies (-) SetToBag({[req |-> r, result |-> result]})
  /\ AnalyzeCallback(r, result)
  /\ UNCHANGED <<extensionSettings, settingsPending, observer, restartTimers,
                 analyzeRequests, rephraseReplies, background,
                 cycleSent, reversedForDisable, utils, nEvents, eventBudget>>

\* the answer of the background script to REPHRASE_TEXT reaches the callback
RephraseReplyArrives(r, rephraseResult) ==
  /\ BagIn([req |-> r, result |-> rephraseResult], rephraseReplies)
  /\ rephraseReplies' =
       rephraseReplies (-) SetToBag({[req |-> r, result |-> rephraseResult]})
  /\ RephraseCallback(r, rephraseResult, rephraseRequests)
  /\ UNCHANGED <<extensionSettings, settingsPending, observer,
                 analyzedTextCache, restartTimers, analyzeRequests,
                 analyzeReplies, background,
                 cycleSent, reversedForDisable, utils, nEvents, eventBudget>>

(***************************************************************************)
(* Handlers of the background script                                       *)
(***************************************************************************)
\* updateStatistics(type) for each type: chrome.storage.local.get is issued
issueUpdates(ops, types) ==
  ops \o [i \in 1..Len(types) |->
            [type |-> types[i], read |-> FALSE, snap |-> DEFAULT_STATS]]

\* the counters one answer is due to raise
countHandled(h, types) ==
  [k \in DOMAIN h |-> h[k] + Cardinality({i \in 1..Len(types) : types[i] = k})]

\* onMessage, ANALYZE_TEXT: the fetch has ended and the .then or .catch of
\* analyzeTextContent(message.text) runs
AnalyzeTextHandled(r, outcome, result) ==
  /\ BagIn(r, analyzeRequests)
  /\ result \in analyzeTextContentAfter(r.text, outcome)
  /\ analyzeRequests' = analyzeRequests (-) SetToBag({r})
  /\ LET types == IF result = Rejected THEN <<>>
                  ELSE IF result.isHarmful THEN <<"harmful", "analyzed">>
                  ELSE <<"analyzed">>
         reply == IF result = Rejected THEN ErrorReply ELSE result
     IN  /\ statsOps' = issueUpdates(statsOps, types)
         /\ handled' = countHandled(handled, types)
         /\ analyzeReplies' =
              analyzeReplies (+) SetToBag({[req |-> r, result |-> reply]})
  /\ UNCHANGED <<extensionSettings, settingsPending, observer, watchers,
                 analyzedTextCache, dom, batchTimers, secondaryTimers,
                 restartTimers, requestTimers, rephraseRequests,
                 rephraseReplies, stats, nEvents, eventBudget, cycleSent,
                 seen, reversedForDisable, utils>>

\* onMessage, REPHRASE_TEXT
RephraseTextHandled(r, outcome) ==
  /\ BagIn(r, rephraseRequests)
  /\ rephraseRequests' = rephraseRequests (-) SetToBag({r})
  /\ LET result == rephraseTextContentAfter(r.text, r.category, outcome)
         types == IF result = Rejected THEN <<>> ELSE <<"rephrased">>
         reply == IF result = Rejected THEN ErrorReply ELSE result
     IN  /\ statsOps' = issueUpdates(statsOps, types)
         /\ handled' = countHandled(handled, types)
         /\ rephraseReplies' =
              rephraseReplies (+) SetToBag({[req |-> r, result |-> reply]})
  /\ UNCHANGED <<extensionSettings, settingsPending, observer, watchers,
                 analyzedTextCache, dom, batchTimers, secondaryTimers,
                 restartTimers, requestTimers, analyzeRequests,
                 analyzeReplies, stats, nEvents, eventBudget, cycleSent,
                 seen, reversedForDisable, utils>>

\* chrome.storage.local.get('stats', ...) of the oldest updateStatistics
\* call not yet served is served: its callback will see the record stored now
StatsRead ==
  /\ \E i \in 1..Len(statsOps) :
       /\ ~statsOps[i].read
       /\ \A j \in 1..(i - 1) : statsOps[j].read
       /\ statsOps' = [statsOps EXCEPT ![i].read = TRUE, ![i].snap = stats]
  /\ UNCHANGED <<extensionSettings, settingsPending, observer, watchers,
                 analyzedTextCache, dom, batchTimers, secondaryTimers,
                 restartTimers, requestTimers, analyzeRequests,
                 rephraseRequests, replies, stats, handled, nEvents,
                 eventBudget, cycleSent, seen, reversedForDisable, utils>>

\* the callback of the oldest updateStatistics call runs: the counter of the
\* record it was given is raised and the record is stored
StatsWrite ==
  /\ statsOps # <<>>
  /\ Head(statsOps).read
  /\ statsOps' = Tail(statsOps)
  /\ stats' = [Head(statsOps).snap EXCEPT ![Head(statsOps).type] = @ + 1]
  /\ UNCHANGED <<extensionSettings, settingsPending, observer, watchers,
                 analyzedTextCache, dom, batchTimers, secondaryTimers,
                 restartTimers, requestTimers, analyzeRequests,
                 rephraseRequests, replies, handled, nEvents,
                 eventBudget, cycleSent, seen, reversedForDisable, utils>>

RECURSIVE Dedup(_, _)
\* insertion into a Set: first occurrences, in order
Dedup(nodes, done) ==
  IF nodes = <<>> THEN <<>>
  ELSE IF Head(nodes) \in done THEN Dedup(Tail(nodes), done)
  ELSE <<Head(nodes)>> \o Dedup(Tail(nodes), done \cup {Head(nodes)})

RECURSIVE Expand(_, _)
\* each buffered node followed by its text-bearing descendants
Expand(d, nodes) ==
  IF nodes = <<>> THEN <<>>
  ELSE LET n == Head(nodes)
           textElements ==
             IF n = OverlayNode THEN <<>>
             ELSE SelectIn(ElemOrder,
                    {x \in Descendants(d, n) :
                       tagName(x) \in {"P", "H1", "H2", "H3", "H4", "H5", "H6", "LI"}})
       IN  <<n>> \o textElements \o Expand(d, Tail(nodes))

\* the debounce timer of watcher g fires
processMutations(g) ==
  /\ UNCHANGED <<background, replies>>
  /\ g \in DOMAIN watchers
  /\ watchers[g].processingTimeout
  /\ LET elementsToProcess == Dedup(Expand(dom, watchers[g].pendingMutations), {})
         c == forEachAnalyzeElement(Context(extensionSettings), elementsToProcess)
         ws == [watchers EXCEPT ![g].pendingMutations = <<>>,
                                ![g].processingTimeout = FALSE]
     IN  Commit(c, ws)
  /\ UNCHANGED <<extensionSettings, settingsPending, observer,
                 analyzedTextCache, restartTimers, analyzeRequests,
                 cycleSent, reversedForDisable, utils, nEvents, eventBudget>>

\* a script of the page appends an element to the body, or to the element
\* the page keeps it in
PageInsert(e) ==
  /\ UNCHANGED <<background, replies>>
  /\ nEvents < eventBudget
  /\ nEvents' = nEvents + 1
  /\ eventBudget' = eventBudget
  /\ dom' = [dom EXCEPT ![e].parent = dom[e].home]
  /\ watchers' = Deliver(watchers, <<e>>, TRUE)
  /\ UNCHANGED <<extensionSettings, settingsPending, observer,
                 analyzedTextCache, batchTimers, secondaryTimers,
                 restartTimers, requestTimers, analyzeRequests,
                 rephraseRequests, cycleSent, seen,
                 reversedForDisable, utils>>

\* the content script, the background script being its environment
Next ==
  \/ \E s \in Settings : SettingsResponse(s)
  \/ \E s \in Settings : SettingsUpdated(s)
  \/ PageChanged
  \/ RestartTimerFires
  \/ \E t \in BagToSet(batchTimers) : BatchTimerFires(t)
  \/ SecondaryTimerFires
  \/ \E r \in BagToSet(requestTimers) : RequestTimerFires(r)
  \/ \E r \in BagToSet(analyzeRequests) :
       \E result \in analyzeTextContent(r.text) : AnalyzeResponse(r, result)
  \/ \E r \in BagToSet(rephraseRequests) :
       \E rr \in rephraseTextContent(r.text, r.category) : RephraseResponse(r, rr)
  \/ \E g \in DOMAIN watchers : processMutations(g)
  \/ \E e \in Insertable : PageInsert(e)

\* the content script and the background script together
NextSystem ==
  \/ \E s \in Settings : SettingsResponse(s)
  \/ \E s \in Settings : SettingsUpdated(s)
  \/ PageChanged
  \/ RestartTimerFires
  \/ \E t \in BagToSet(batchTimers) : BatchTimerFires(t)
  \/ SecondaryTimerFires
  \/ \E r \in BagToSet(requestTimers) : RequestTimerFires(r)
  \/ \E r \in BagToSet(analyzeRequests) : \E o \in RemoteOutcomes :
       \E result \in analyzeTextContentAfter(r.text, o) :
         AnalyzeTextHandled(r, o, result)
  \/ \E r \in BagToSet(rephraseRequests) : \E o \in RemoteOutcomes :
       RephraseTextHandled(r, o)
  \/ StatsRead
  \/ StatsWrite
  \/ \E m \in BagToSet(analyzeReplies) : AnalyzeReplyArrives(m.req, m.result)
  \/ \E m \in BagToSet(rephraseReplies) :
       RephraseReplyArrives(m.req, m.result)
  \/ \E g \in DOMAIN watchers : processMutations(g)
  \/ \E e \in Insertable : PageInsert(e)

Spec == Init /\ [][Next]_vars

SpecTwin == InitTwin /\ [][Next]_vars

SpecNested == InitNested /\ [][Next]_vars

\* the scan scheduler alone, before any request delay has elapsed
NextScan ==
  \/ \E s \in Settings : SettingsResponse(s)
  \/ \E t \in BagToSet(batchTimers) : BatchTimerFires(t)
  \/ SecondaryTimerFires

SpecScan == InitScan /\ [][NextScan]_vars

\* the background script alone
NextBackground ==
  \/ \E r \in BagToSet(analyzeRequests) : \E o \in RemoteOutcomes :
       \E result \in analyzeTextContentAfter(r.text, o) :
         AnalyzeTextHandled(r, o, result)
  \/ \E r \in BagToSet(rephraseRequests) : \E o \in RemoteOutcomes :
       RephraseTextHandled(r, o)
  \/ StatsRead
  \/ StatsWrite

SpecBackground == InitBackground /\ [][NextBackground]_vars

\* setTimeout(processMutations, 300) has been called by watcher g and the
\* timer has not fired yet: the pass of g can run exactly in these states
Armed(g) == g \in DOMAIN watchers /\ watchers[g].processingTimeout

\* the content script when no armed debounce timer waits for ever: weak
\* fairness of each watcher's pass, WF_vars(processMutations(g)), written out
\* with Armed(g) as the enabling condition of the pass
SpecLive ==
  /\ Init
  /\ [][Next]_vars
  /\ \A g \in 1..MaxWatchers :
       []<>(~Armed(g)) \/ []<><<processMutations(g)>>_vars

SpecDeep == InitDeep /\ [][Next]_vars

SpecMenu == InitMenu /\ [][Next]_vars

\* the content script when the popup sends no SETTINGS_UPDATED: the messages
\* counted by cycleSent are then those sent since the last PAGE_CHANGED
NextNav ==
  \/ \E s \in Settings : SettingsResponse(s)
  \/ PageChanged
  \/ RestartTimerFires
  \/ \E t \in BagToSet(batchTimers) : BatchTimerFires(t)
  \/ SecondaryTimerFires
  \/ \E r \in BagToSet(requestTimers) : RequestTimerFires(r)
  \/ \E r \in BagToSet(analyzeRequests) :
       \E result \in analyzeTextContent(r.text) : AnalyzeResponse(r, result)
  \/ \E r \in BagToSet(rephraseRequests) :
       \E rr \in rephraseTextContent(r.text, r.category) : RephraseResponse(r, rr)
  \/ \E g \in DOMAIN watchers : processMutations(g)
  \/ \E e \in Insertable : PageInsert(e)

SpecNav == InitNav /\ [][NextNav]_vars

\* a page script is about to call DOMGuardianUtils.extractTextWithMapping on
\* some element; the content script has loaded and nothing else happens
InitUtils ==
  /\ utilsElement \in UtilsElements
  /\ utilsResult = NotCalled
  /\ eventBudget = 0
  /\ extensionSettings = DefaultSettings
  /\ settingsPending = TRUE
  /\ observer = 0
  /\ watchers = <<>>
  /\ analyzedTextCache = NoVerdicts
  /\ dom = PageA
  /\ batchTimers = EmptyBag
  /\ secondaryTimers = 0
  /\ restartTimers = 0
  /\ requestTimers = EmptyBag
  /\ analyzeRequests = EmptyBag
  /\ rephraseRequests = EmptyBag
  /\ analyzeReplies = EmptyBag
  /\ rephraseReplies = EmptyBag
  /\ stats = DEFAULT_STATS
  /\ statsOps = <<>>
  /\ handled = DEFAULT_STATS
  /\ nEvents = 0
  /\ cycleSent = [e \in DOMAIN PageA |-> 0]
  /\ seen = {}
  /\ reversedForDisable = FALSE

\* the call extractTextWithMapping(element) returns
ExtractText ==
  /\ utilsResult = NotCalled
  /\ utilsResult' = <<extractTextWithMapping(utilsElement)>>
  /\ UNCHANGED <<extensionSettings, settingsPending, observer, watchers,
                 analyzedTextCache, dom, batchTimers, secondaryTimers,
                 restartTimers, requestTimers, analyzeRequests,
                 rephraseRequests, analyzeReplies, rephraseReplies, stats,
                 statsOps, handled, nEvents, eventBudget, cycleSent, seen,
                 reversedForDisable, utilsElement>>

NextUtils == ExtractText

SpecUtils == InitUtils /\ [][NextUtils]_vars

\* a timer is armed or a request is awaiting its answer: exactly the states
\* in which a step of Pending work can be taken
Busy ==
  \/ batchTimers # EmptyBag \/ secondaryTimers > 0 \/ restartTimers > 0
  \/ requestTimers # EmptyBag
  \/ analyzeRequests # EmptyBag \/ rephraseRequests # EmptyBag
  \/ \E g \in DOMAIN watchers : watchers[g].processingTimeout

\* the steps the browser and the background script owe the content script:
\* an armed timer fires, a request is answered
Work ==
  \/ RestartTimerFires
  \/ \E t \in BagToSet(batchTimers) : BatchTimerFires(t)
  \/ SecondaryTimerFires
  \/ \E r \in BagToSet(requestTimers) : RequestTimerFires(r)
  \/ \E r \in BagToSet(analyzeRequests) :
       \E result \in analyzeTextContent(r.text) : AnalyzeResponse(r, result)
  \/ \E r \in BagToSet(rephraseRequests) :
       \E rr \in rephraseTextContent(r.text, r.category) : RephraseResponse(r, rr)
  \/ \E g \in DOMAIN watchers : processMutations(g)

\* the content script when timers fire and requests are answered: weak
\* fairness of Work, WF_vars(Work), written out with Busy as its enabling
\* condition
SpecFair ==
  /\ Init
  /\ [][Next]_vars
  /\ ([]<>(~Busy) \/ []<><<Work>>_vars)

SpecSystem == InitSystem /\ [][NextSystem]_vars

(***************************************************************************)
(* Properties                                                              *)
(***************************************************************************)
\* the page as its author wrote it (both pages hold the same texts)
OriginalPage == PageB

\* the overlay state of an attached element is empty
Unmodified(d, e) ==
  /\ d[e].badges = 0
  /\ ~d[e].wrapper.has
  /\ ~d[e].wrapper.indicator
  /\ ~d[e].flagged
  /\ ~d[e].marker

\* C1: in every reachable state an element carries at most one warning
\* badge, whatever the number and order of the verdicts applied to it
C1_AtMostOneBadge == \A e \in Elems : dom[e].badges <= 1

\* a second verdict met the badge of an earlier one
C1_Witness ==
  "badge exists" \in seen /\ \E e \in Elems : dom[e].badges = 1

\* C2: between two reversals, ANALYZE_TEXT is sent at most once for each
\* element
C2_OncePerCycle == \A e \in Elems : cycleSent[e] <= 1

\* C3: two elements with the same trimmed text never have a remote request
\* each: the text is requested once
C3_OneRequestPerText ==
  \A r1, r2 \in BagToSet(analyzeRequests) :
    r1.text = r2.text => r1.el = r2.el

\* C4: once an element's content has been replaced by the rephrase wrapper,
\* removeAllModifications gives it back the text content the page had
C4_RoundTrip ==
  \A e \in Attached(dom) :
    dom[e].wrapper.has =>
      textContent(removeAllModifications(dom), e) = textContent(OriginalPage, e)

\* C5: from every reachable DOM, a second removeAllModifications changes
\* nothing, and on a DOM without modifications the first changes nothing
C5_Idempotent ==
  LET once == removeAllModifications(dom)
  IN  /\ removeAllModifications(once) = once
      /\ (\A e \in Attached(dom) : Unmodified(dom, e)) => once = dom

\* a reversal has run for a disable and has restored a rephrased element
C5_Witness ==
  /\ reversedForDisable
  /\ dom = removeAllModifications(dom)
  /\ \E e \in Attached(dom) : dom[e].text # OriginalPage[e].text

\* C6: from every reachable state, right after removeAllModifications no
\* element of the document carries a badge, an indicator, a wrapper, the
\* flagged class or the processed marker
C6_ReversalComplete ==
  LET d == removeAllModifications(dom)
  IN  \A e \in Attached(d) : Unmodified(d, e)

\* C7: an element whose trimmed text is shorter than 10 characters is left
\* as the page wrote it and no request is ever made for it
C7_ShortUntouched ==
  \A e \in Elems :
    Length(Trim(innerText(OriginalPage, e))) < 10 =>
      /\ [dom[e] EXCEPT !.parent = "-"] = [OriginalPage[e] EXCEPT !.parent = "-"]
      /\ cycleSent[e] = 0
      /\ \A r \in BagToSet(requestTimers) \cup BagToSet(analyzeRequests)
                    \cup BagToSet(rephraseRequests) : r.el # e

\* analyzeElement has turned a short element away
C7_Witness ==
  /\ "too short" \in seen
  /\ \E e \in Attached(dom) : Length(Trim(innerText(dom, e))) < 10
                              /\ innerText(dom, e) # <<>>

\* C8: once the reversal has run for a disable, the document shows no badge,
\* wrapper, indicator or flagged class until the pipeline is enabled again
C8_NoResurrection ==
  reversedForDisable =>
    \A e \in Attached(dom) :
      dom[e].badges = 0 /\ ~dom[e].wrapper.has /\ ~dom[e].flagged

\* C9: a disconnected watcher has no debounce timer armed
C9_NoTimerAfterDisconnect ==
  \A g \in DOMAIN watchers :
    ~watchers[g].connected => ~watchers[g].processingTimeout

C11_HardReset ==
  [][PageChanged =>
       /\ analyzedTextCache' = NoVerdicts
       /\ \A e \in Attached(dom') : Unmodified(dom', e)
       /\ restartTimers' = restartTimers + (IF extensionSettings.enabled
                                            THEN 1 ELSE 0)]_vars

\* C12: a burst of insertions arms exactly one debounce timer and is handled
\* by exactly one processMutations pass: no two connected watchers have
\* their debounce timer armed at once
C12_OneDebouncedPass ==
  \A g, h \in DOMAIN watchers :
    /\ watchers[g].connected /\ watchers[g].processingTimeout
    /\ watchers[h].connected /\ watchers[h].processingTimeout
    => g = h

\* C13: a text the result cache maps to a verdict keeps that verdict in the
\* next state, unless the step is the PAGE_CHANGED handler clearing the cache
C13_CacheImmutable ==
  [][\A t \in DOMAIN analyzedTextCache :
       \/ PageChanged
       \/ /\ t \in DOMAIN analyzedTextCache'
          /\ analyzedTextCache'[t] = analyzedTextCache[t]]_vars

\* the ways a fetch fails
RemoteFailures == RemoteOutcomes \ {"ok"}

\* C14: when the remote call fails, ANALYZE_TEXT for "this will kill you" is
\* answered harmful, category harmful, confidence 0.7, and REPHRASE_TEXT for
\* it with category harmful is answered with the safety notice
C14_FallbackVerdict ==
  [][/\ \A r \in BagToSet(analyzeRequests) : \A o \in RemoteFailures :
          \A res \in analyzeTextContentAfter(r.text, o) :
            r.text = TextKillYou /\ AnalyzeTextHandled(r, o, res) =>
              BagIn([req |-> r,
                     result |-> [text |-> r.text, isHarmful |-> TRUE,
                                 category |-> "harmful", confidence |-> 7]],
                    analyzeReplies')
     /\ \A r \in BagToSet(rephraseRequests) : \A o \in RemoteFailures :
          /\ r.text = TextKillYou
          /\ r.category = "harmful"
          /\ RephraseTextHandled(r, o)
          => BagIn([req |-> r,
                    result |-> [original |-> r.text,
                                rephrased |-> SafetyNotice]],
                   rephraseReplies')]_vars

\* nothing is armed, in flight or under way
Quiescent ==
  /\ ~settingsPending
  /\ batchTimers = EmptyBag /\ secondaryTimers = 0 /\ restartTimers = 0
  /\ requestTimers = EmptyBag
  /\ analyzeRequests = EmptyBag /\ rephraseRequests = EmptyBag
  /\ analyzeReplies = EmptyBag /\ rephraseReplies = EmptyBag
  /\ statsOps = <<>>
  /\ \A g \in DOMAIN watchers : ~watchers[g].processingTimeout

\* C15: on the page with paragraphs of 5, 25 and 120 characters and no
\* keyword, with the pipeline enabled, no external event and every answer
\* safe, the run ends with no badge, wrapper or flagged class in the
\* document, the analyzed counter at 2 and no request for the 5-character
\* paragraph
C15_ThreeParagraphs ==
  /\ dom["p2"].text = TextTwentyFive /\ dom["p3"].text = TextLong
  /\ extensionSettings.enabled /\ nEvents = 0 /\ handled.harmful = 0
  /\ Quiescent
  => /\ \A e \in Attached(dom) :
          dom[e].badges = 0 /\ ~dom[e].wrapper.has /\ ~dom[e].flagged
     /\ cycleSent["p1"] = 0
     /\ handled.analyzed = 2
     /\ stats.analyzed = 2

\* no answer on its way to the content script is an { error } answer
NoErrorReply ==
  /\ \A m \in BagToSet(analyzeReplies) : m.result # ErrorReply
  /\ \A m \in BagToSet(rephraseReplies) : m.result # ErrorReply

\* C16: when the fetch of /analyze or /rephrase fails, for any request, the
\* answer sent is the local verdict, or { original, rephrased } from
\* localRephrase; no { error } answer is ever on its way to the content
\* script, and the callback of every answer records the verdict
C16_FailuresFallBack ==
  [][/\ NoErrorReply'
     /\ \A r \in BagToSet(analyzeRequests) : \A o \in RemoteFailures :
          \A res \in analyzeTextContentAfter(r.text, o) :
            AnalyzeTextHandled(r, o, res) =>
              LET local == [req |-> r, result |-> localVerdict(r.text)]
              IN  CopiesIn(local, analyzeReplies')
                    = CopiesIn(local, analyzeReplies) + 1
     /\ \A r \in BagToSet(rephraseRequests) : \A o \in RemoteFailures :
          RephraseTextHandled(r, o) =>
            LET local == [req |-> r,
                          result |-> [original |-> r.text,
                                      rephrased |->
                                        localRephrase(r.text, r.category)]]
            IN  CopiesIn(local, rephraseReplies')
                  = CopiesIn(local, rephraseReplies) + 1
     /\ \A m \in BagToSet(analyzeReplies) :
          AnalyzeReplyArrives(m.req, m.result) =>
            /\ m.req.text \in DOMAIN analyzedTextCache'
            /\ analyzedTextCache'[m.req.text] = m.result]_vars

\* the verdict of the local heuristic has been recorded by the callback, and
\* a locally rephrased text is on its way
C16_Witness ==
  /\ \E t \in DOMAIN analyzedTextCache :
       analyzedTextCache[t] = localVerdict(t)
  /\ \E m \in BagToSet(rephraseReplies) :
       m.result.rephrased = localRephrase(m.req.text, m.req.category)

\* the text holds a token the claim calls suspicious
Suspicious(t) ==
  \E i \in 1..Len(t) :
    t[i] \in {"fuck", "shit", "ass", "porn", "nude", "sex", "bomb",
              "explosive", "hack", "harm", "kill", "suicide"}

\* C17: in the step in which analyzeElement marks an element whose text is
\* not in the cache: without a suspicious token and under 100 characters, no
\* request timer is armed for it and it gets no badge, wrapper or flagged
\* class; with a suspicious token or 100 characters and more (and not turned
\* away as UI text), one request timer is armed for it.  A request timer or
\* a request exists only for a text with a suspicious token or of 100
\* characters and more, and an armed request timer sends its request
C17_PreFilter ==
  [][/\ \A e \in Elems :
          LET t == analysisText(dom, e)
              timer == [el |-> e, text |-> t]
              newlyMarked == ~dom[e].marker /\ dom'[e].marker
              miss == t \notin DOMAIN analyzedTextCache
              passes == Suspicious(t) \/ Length(t) >= 100
          IN  /\ newlyMarked /\ miss /\ ~passes =>
                   /\ CopiesIn(timer, requestTimers')
                        = CopiesIn(timer, requestTimers)
                   /\ dom'[e].badges = dom[e].badges
                   /\ dom'[e].wrapper = dom[e].wrapper
                   /\ dom'[e].flagged = dom[e].flagged
              /\ newlyMarked /\ miss /\ passes
                   /\ ~(Length(t) < 20 /\ uiText(t)) =>
                   CopiesIn(timer, requestTimers')
                     = CopiesIn(timer, requestTimers) + 1
     /\ \A r \in BagToSet(requestTimers') \cup BagToSet(analyzeRequests') :
          Suspicious(r.text) \/ Length(r.text) >= 100
     /\ \A r \in BagToSet(requestTimers) :
          RequestTimerFires(r) => BagIn(r, analyzeRequests')]_vars

\* the 25-character paragraph has been marked and nothing was armed for it,
\* and a request was sent for the 120-character one
C17_Witness ==
  /\ dom["p2"].text = TextTwentyFive /\ dom["p2"].marker
  /\ cycleSent["p2"] = 0
  /\ cycleSent["p3"] > 0

\* every combination of the three switches
AllSettings ==
  [enabled : BOOLEAN, autoRephrase : BOOLEAN, showWarnings : BOOLEAN]

\* the verdicts handleAnalysisResult is to treat as safe
SafeVerdicts ==
  {v \in [text : {TextPlain}, isHarmful : BOOLEAN,
          category : {"harmful", "offensive", "inappropriate", "safe"},
          confidence : {6, 7, 9}] :
     ~v.isHarmful \/ v.category = "safe"}

\* C18: in every reachable state, for every settings combination, element
\* and safe verdict, handleAnalysisResult leaves the DOM, the timers and the
\* pending rephrase requests as they are
C18_SafeVerdictFrame ==
  \A s \in AllSettings : \A e \in Elems : \A v \in SafeVerdicts :
    handleAnalysisResult(Context(s), e, v) = Context(s)

\* a safe verdict has been applied and the document carries no overlay
C18_Witness ==
  /\ \E t \in DOMAIN analyzedTextCache : ~analyzedTextCache[t].isHarmful
  /\ rephraseRequests = EmptyBag
  /\ \A e \in Attached(dom) :
       dom[e].badges = 0 /\ ~dom[e].wrapper.has /\ ~dom[e].flagged

\* C19: with showWarnings and autoRephrase on and no settings change or
\* navigation, an element that carries the rephrase wrapper of a harmful
\* verdict carries exactly one warning badge as well
C19_BadgeAndWrapper ==
  /\ extensionSettings.showWarnings /\ extensionSettings.autoRephrase
  /\ nEvents = 0
  => \A e \in Attached(dom) : dom[e].wrapper.has => dom[e].badges = 1

\* C20: once every updateStatistics call has finished, the stored counters
\* equal the numbers of ANALYZE_TEXT requests answered, of harmful verdicts
\* among them, and of REPHRASE_TEXT requests answered
C20_NoLostIncrement == statsOps = <<>> => stats = handled

\* C21: on the page where the inserted div and its paragraph are both
\* analysed, in every reachable state no element with a rephrase wrapper has
\* an ancestor with one, and once the div carries a wrapper a reversal gives
\* it back the text content the page gave it
C21_OverlapSafe ==
  /\ \A e \in Attached(dom) :
       dom[e].wrapper.has => \A a \in Ancestors(dom, e) : ~dom[a].wrapper.has
  /\ dom["d1"].wrapper.has /\ inDocument(dom, "d1") =>
       textContent(removeAllModifications(dom), "d1")
         = textContent(PageNested, "d1")

RECURSIVE Flatten(_)
\* the elements of a batch list, first batch first
Flatten(batches) ==
  IF batches = <<>> THEN <<>> ELSE Head(batches) \o Flatten(Tail(batches))

\* the place of an element in the document
DocIndex(e) == CHOOSE i \in 1..Len(ElemOrder) : ElemOrder[i] = e

\* C22: for every armed next-batch timer of the scan of a long page, every
\* batch holds between one and five elements, the batches taken together
\* list the discovered elements in document order with no element twice, the
\* elements handed over (they carry the processed marker) are exactly those
\* of the batches before the timer's index; and when a next-batch timer
\* fires on a batch, the timer of the following batch is armed in the same
\* step, whatever requests are pending
C22_BatchesInOrder ==
  /\ [](\A t \in BagToSet(batchTimers) :
          /\ \A i \in 1..Len(t.batches) : Len(t.batches[i]) \in 1..batchSize
          /\ LET all == Flatten(t.batches)
             IN  \A i, j \in 1..Len(all) :
                   i < j => DocIndex(all[i]) < DocIndex(all[j])
          /\ \A i \in 1..Len(t.batches) : \A x \in 1..Len(t.batches[i]) :
               dom[t.batches[i][x]].marker <=> i < t.index)
  /\ [][\A t \in BagToSet(batchTimers) :
          BatchTimerFires(t) /\ t.index <= Len(t.batches) =>
            BagIn([batches |-> t.batches, index |-> t.index + 1],
                  batchTimers')]_vars

\* the number of elements the primary phase of the scan of the page collects:
\* the paragraphs of more than 15 characters, once for each container that
\* holds them
PrimaryCollected ==
  LET arts  == {a \in Attached(dom) : tagName(a) = "ARTICLE"}
      paras == {e \in Attached(dom) :
                  /\ tagName(e) = "P"
                  /\ Length(Trim(innerText(dom, e))) > 15}
  IN  IF arts = {} THEN Cardinality(paras)
      ELSE Cardinality({ae \in arts \X paras : ae[1] \in Ancestors(dom, ae[2])})

\* the divs handed to analyzeElement (they carry the processed marker)
HandedDivs == {e \in DOMAIN dom : tagName(e) = "DIV" /\ dom[e].marker}

\* C23: in the scan of a long page, the secondary timer is armed and a div is
\* handed to analysis or queued in a batch only if the primary phase
\* collected fewer than 10 elements, and at most 20 divs are ever handed over
\* or queued
C23_SecondaryGated ==
  /\ Cardinality(HandedDivs) <= 20
  /\ \A t \in BagToSet(batchTimers) :
       Len(SelectSeq(Flatten(t.batches), LAMBDA e : tagName(e) = "DIV")) <= 20
  /\ PrimaryCollected >= 10 =>
       /\ secondaryTimers = 0
       /\ HandedDivs = {}
       /\ \A t \in BagToSet(batchTimers) :
            \A i \in 1..Len(t.batches) : \A x \in 1..Len(t.batches[i]) :
              tagName(t.batches[i][x]) # "DIV"

\* the scan is over on a page of 21 divs: 20 were handed over, one was not
C23_Witness ==
  /\ batchTimers = EmptyBag /\ secondaryTimers = 0 /\ ~settingsPending
  /\ Cardinality(HandedDivs) = 20
  /\ \E e \in Attached(dom) : tagName(e) = "DIV" /\ ~dom[e].marker

\* the answers of calculateLocalToxicityScore among those on their way (the
\* remote service answers with another confidence)
LocalAnswers ==
  {m \in BagToSet(analyzeReplies) :
     m.result # ErrorReply /\ m.result.confidence \in {6, 7}}

\* C25: every answer of the local heuristic has category harmful if a harmful
\* pattern matches the lower-cased text, else offensive if an offensive one
\* does, else inappropriate if an inappropriate one does, else safe; isHarmful
\* is true and the confidence 0.7 exactly when a pattern matched, and the
\* answer is not harmful with confidence 0.6 otherwise
C25_SeverityPriority ==
  \A m \in LocalAnswers :
    LET t == toLowerCase(m.req.text)
        v == m.result
    IN  /\ v.category = IF harmfulPattern(t) THEN "harmful"
                        ELSE IF offensivePattern(t) THEN "offensive"
                        ELSE IF inappropriatePattern(t) THEN "inappropriate"
                        ELSE "safe"
        /\ v.isHarmful <=>
             harmfulPattern(t) \/ offensivePattern(t) \/ inappropriatePattern(t)
        /\ v.confidence = IF v.isHarmful THEN 7 ELSE 6

\* a text matched by a harmful and by an inappropriate pattern got its local
\* answer
C25_Witness ==
  \E m \in LocalAnswers :
    LET t == toLowerCase(m.req.text)
    IN  /\ harmfulPattern(t) /\ inappropriatePattern(t)
        /\ m.result.category = "harmful"

\* the placeholder of a word of the table, the token itself otherwise
Placeholder(tok) ==
  CASE Lower(tok) = "fuck" -> "****"
    [] Lower(tok) = "shit" -> "****"
    [] Lower(tok) = "bitch" -> "*****"
    [] Lower(tok) = "ass" -> "***"
    [] Lower(tok) = "kill" -> "harm"
    [] Lower(tok) = "bomb" -> "device"
    [] Lower(tok) = "weapon" -> "tool"
    [] Lower(tok) = "porn" -> "content"
    [] Lower(tok) = "nude" -> "unclothed"
    [] Lower(tok) = "sex" -> "intimacy"
    [] OTHER -> tok

\* C26: when REPHRASE_TEXT is answered after the remote call failed, the
\* answer's rephrased text is the safety notice if the category is harmful;
\* otherwise it is the text with every table word, in any case, replaced by
\* its placeholder and every other token as it was, and localRephrase applied
\* to it again gives it back unchanged
C26_LocalRephrasePolicy ==
  [][\A r \in BagToSet(rephraseRequests) : \A o \in RemoteOutcomes \ {"ok"} :
       RephraseTextHandled(r, o) =>
         LET expected == IF r.category = "harmful" THEN SafetyNotice
                         ELSE [i \in 1..Len(r.text) |-> Placeholder(r.text[i])]
         IN  /\ BagIn([req |-> r,
                       result |-> [original |-> r.text, rephrased |-> expected]],
                      rephraseReplies')
             /\ localRephrase(expected, r.category) = expected]_vars

\* a text with a capitalised table word and a word that merely contains one
\* was rephrased locally
C26_Witness ==
  \E m \in BagToSet(rephraseReplies) :
    /\ m.req.category # "harmful"
    /\ Len(m.result.rephrased) = Len(m.req.text)
    /\ \E i, j \in 1..Len(m.req.text) :
         /\ m.req.text[i] = "Kill" /\ m.result.rephrased[i] = "harm"
         /\ m.req.text[j] = "sextant" /\ m.result.rephrased[j] = "sextant"

\* the nodes a watcher has buffered
Pending(ws, g) ==
  {ws[g].pendingMutations[i] : i \in 1..Len(ws[g].pendingMutations)}

\* C24: an element a page script appends is buffered by every connected
\* watcher, whose debounce timer is then armed; a pass of a watcher runs the
\* per-element pipeline on the first node of its buffer (an element that gets
\* through the first checks comes out marked processed); and a watcher whose
\* buffer holds a node always reaches a state where the buffer is empty again,
\* which only a pass can bring about
C24_NoInsertionLost ==
  /\ [][\A e \in Insertable : PageInsert(e) =>
          \A g \in DOMAIN watchers : watchers[g].connected =>
            /\ e \in Pending(watchers', g)
            /\ watchers'[g].processingTimeout]_vars
  /\ [][\A g \in DOMAIN watchers :
          /\ processMutations(g) /\ watchers[g].pendingMutations # <<>> =>
               LET e == Head(watchers[g].pendingMutations)
               IN  /\ e # OverlayNode
                   /\ ~shouldIgnoreElement(dom, e)
                   /\ ~dom[e].marker
                   /\ Length(Trim(innerText(dom, e))) >= 10
                   => dom'[e].marker
          /\ Len(watchers'[g].pendingMutations)
               < Len(watchers[g].pendingMutations) => processMutations(g)]_vars
  /\ \A g \in 1..MaxWatchers :
       (g \in DOMAIN watchers /\ watchers[g].pendingMutations # <<>>)
         ~> (g \in DOMAIN watchers /\ watchers[g].pendingMutations = <<>>)

\* a burst: a second element was appended while the watcher's timer was armed
\* for the first
C24_Witness ==
  \E g \in DOMAIN watchers :
    /\ watchers[g].connected /\ watchers[g].processingTimeout
    /\ {"p1", "d1"} \subseteq Pending(watchers, g)

\* C27: in every reachable state the filter rejects every attached element
\* that has an ancestor, at any depth, carrying an ai-guardian class, every
\* element that holds an overlay node or has a descendant holding one, and
\* every element that carries an ai-guardian class itself
C27_FilterRejectsOverlay ==
  \A e \in Attached(dom) :
    \/ \E a \in Ancestors(dom, e) : hasGuardianClass(dom, a)
    \/ holdsOverlay(dom, e)
    \/ \E d \in Descendants(dom, e) : holdsOverlay(dom, d)
    \/ hasGuardianClass(dom, e)
    => shouldIgnoreElement(dom, e)

\* C28: in every reachable state an element whose trimmed text has 10 to 19
\* characters and matches the common-UI-text pattern, or which sits inside a
\* nav, header or footer, carries no processed marker, has no request delay
\* armed and has had no ANALYZE_TEXT message sent for it
C28_UiTextRejectedFirst ==
  \A e \in DOMAIN dom :
    LET text == Trim(innerText(dom, e))
    IN  /\ Length(text) \in 10..19
        /\ \/ uiText(text)
           \/ closest(dom, e, "NAV")
           \/ closest(dom, e, "HEADER")
           \/ closest(dom, e, "FOOTER")
        => /\ ~dom[e].marker
           /\ cycleSent[e] = 0
           /\ \A r \in BagToSet(requestTimers) : r.el # e

\* C29: in every reachable state at most one watcher is connected, and a
\* connected watcher is the one observer refers to
C29_SingleWatcher ==
  /\ Cardinality({g \in DOMAIN watchers : watchers[g].connected}) <= 1
  /\ \A g \in DOMAIN watchers : watchers[g].connected => observer = g

\* C30: in a step that begins and ends with enabled = false, no ANALYZE_TEXT
\* message is sent, no request delay or next-batch timer is armed, and no
\* element is newly marked processed
C30_QuietWhileDisabled ==
  [][~extensionSettings.enabled /\ ~extensionSettings'.enabled =>
       /\ \A r \in BagToSet(analyzeRequests') :
            CopiesIn(r, analyzeRequests') <= CopiesIn(r, analyzeRequests)
       /\ \A r \in BagToSet(requestTimers') :
            CopiesIn(r, requestTimers') <= CopiesIn(r, requestTimers)
       /\ \A t \in BagToSet(batchTimers') :
            CopiesIn(t, batchTimers') <= CopiesIn(t, batchTimers)
       /\ secondaryTimers' <= secondaryTimers
       /\ \A e \in DOMAIN dom : dom'[e].marker => dom[e].marker]_vars

\* C31: when no SETTINGS_UPDATED is ever sent, a text has a verdict in the
\* cache only if an ANALYZE_TEXT message was sent for an element with that
\* text since the last PAGE_CHANGED (since the load when there was none)
C31_CacheAfterReset ==
  \A t \in DOMAIN analyzedTextCache :
    \E e \in DOMAIN dom : cycleSent[e] > 0

\* C32: when timers fire and requests are answered, every run on the page
\* with one paragraph, whatever its messages and insertions, reaches a point
\* after which no timer is armed and no request is in flight
C32_Quiesces == <>[](~Busy)

\* the pipeline is at rest with a connected watcher on a page that carries an
\* overlay node the watcher was told of
C32_Witness ==
  /\ ~Busy /\ ~settingsPending /\ nEvents = eventBudget
  /\ \E g \in DOMAIN watchers : watchers[g].connected
  /\ \E e \in Attached(dom) : dom[e].wrapper.has \/ dom[e].badges > 0

\* C33: for every entry [start, end] -> node of the mapping returned by
\* extractTextWithMapping, the characters of the returned text from start to
\* end are the node's trimmed text
C33_MappingMatchesText ==
  \A i \in DOMAIN utilsResult :
    \A k \in DOMAIN utilsResult[i].mapping :
      LET entry == utilsResult[i].mapping[k]
      IN  substring(Chars(utilsResult[i].text), entry.range[1], entry.range[2])
            = Chars(Trim(NodeAt(utilsElement, entry.node).textContent))

====
